---- MODULE Spec2Model ----
(***************************************************************************)
(* A model of pagerank.py: crawl, transition_model, sample_pagerank and    *)
(* iterate_pagerank.  File and page names are Python strings, modelled as  *)
(* sequences of one-character strings; a dict is a function from its keys. *)
(* Floats are modelled as exact rationals <<numerator, denominator>>.      *)
(***************************************************************************)
EXTENDS Integers, Sequences, FiniteSets, TLC

VARIABLES
    directory,          \* crawl: file name -> contents (a sequence of markup tokens)
    pages,              \* crawl: the dict `pages`
    crawl_pc,           \* crawl: position in the function
    corpus,             \* the corpus passed to the ranking functions
    call,               \* which ranking function is being called
    pc,                 \* position in the called function
    page,               \* transition_model: argument `page`; iterate_pagerank: loop variable
    damping_factor,     \* argument `damping_factor`
    n,                  \* sample_pagerank: argument `n`
    visit_probability,  \* transition_model: local dict
    linked_page,        \* transition_model: local
    other_pages,        \* transition_model: local set
    starting_page,      \* sample_pagerank: local
    N,                  \* iterate_pagerank: local
    pagerank,           \* sample_pagerank / iterate_pagerank: local dict
    difference,         \* iterate_pagerank: local dict
    result              \* outcome of the call: running, returned or raised

crawlVars == <<directory, pages, crawl_pc>>
rankVars == <<corpus, call, pc, page, damping_factor, n, visit_probability,
              linked_page, other_pages, starting_page, N, pagerank,
              difference, result>>
vars == <<directory, pages, crawl_pc, corpus, call, pc, page, damping_factor,
          n, visit_probability, linked_page, other_pages, starting_page, N,
          pagerank, difference, result>>

----------------------------------------------------------------------------
(* Bounds *)

\* Longest file contents, in markup tokens.
MaxLinks == 2

\* Largest small sample count passed to sample_pagerank.
MaxSamples == 2

----------------------------------------------------------------------------
(* Names *)

HtmlSuffix == <<".", "h", "t", "m", "l">>

NameA == <<"a">> \o HtmlSuffix
NameB == <<"b">> \o HtmlSuffix
NameC == <<"c">> \o HtmlSuffix
\* A file of the directory that is not an HTML page.
NameTxt == <<"n", ".", "t", "x", "t">>
\* A link target that is never a file of the directory.
NameAbsent == <<"z">> \o HtmlSuffix

\* An unbound name / an empty dict (the empty tuple is the empty function).
NoName == <<>>
EmptyDict == <<>>

\* str.endswith
endswith(s, suffix) ==
    /\ Len(s) >= Len(suffix)
    /\ SubSeq(s, Len(s) - Len(suffix) + 1, Len(s)) = suffix

SeqToSet(s) == {s[i] : i \in DOMAIN s}

----------------------------------------------------------------------------
(* Rational arithmetic for the float expressions *)

RECURSIVE GCD(_, _)
GCD(a, b) == IF b = 0 THEN a ELSE GCD(b, a % b)

Abs(a) == IF a < 0 THEN -a ELSE a

Rat(a, b) ==
    LET s == IF b < 0 THEN -1 ELSE 1
        g == GCD(Abs(a), Abs(b))
    IN <<(s * a) \div g, (s * b) \div g>>

RAdd(x, y) == Rat(x[1] * y[2] + y[1] * x[2], x[2] * y[2])
RSub(x, y) == Rat(x[1] * y[2] - y[1] * x[2], x[2] * y[2])
RMul(x, y) == Rat(x[1] * y[1], x[2] * y[2])
RLess(x, y) == x[1] * y[2] < y[1] * x[2]

RZero == <<0, 1>>
ROne == <<1, 1>>

RECURSIVE RSum(_, _)
RSum(f, S) ==
    IF S = {} THEN RZero
    ELSE LET p == CHOOSE q \in S : TRUE
         IN RAdd(f[p], RSum(f, S \ {p}))

\* DAMPING = 0.85
DAMPING == <<17, 20>>
\* SAMPLES = 10000
SAMPLES == 10000

----------------------------------------------------------------------------
(* crawl *)

\* The names a directory may hold, and the names a link may point to.
HtmlNames == {NameA, NameB}
LinkTargets == {NameA, NameB, NameTxt, NameAbsent}

\* The contents of a file, as the pieces of markup the link pattern runs
\* over: "a_href" is an anchor <a ... href="T">, "a_HREF" is an anchor whose
\* attribute name is in upper case.
Tokens ==
    {[kind |-> "a_href", href |-> t] : t \in LinkTargets}
        \cup {[kind |-> "a_HREF", href |-> NameB]}

Contents == UNION {[1..k -> Tokens] : k \in 0..MaxLinks}

\* What the non-HTML file holds: it is never opened.
TxtContents == <<[kind |-> "a_href", href |-> NameA]>>

HtmlDirectories == UNION {[S -> Contents] : S \in SUBSET HtmlNames}

WithTxt(d) ==
    [f \in DOMAIN d \cup {NameTxt} |-> IF f = NameTxt THEN TxtContents ELSE d[f]]

Directories == HtmlDirectories \cup {WithTxt(d) : d \in HtmlDirectories}

\* re.findall(r"<a\s+(?:[^>]*?)href=\"([^\"]*)\"", contents): the quoted
\* targets of the anchors whose attribute is spelled href, in order.
MatchesPattern(tok) == tok.kind = "a_href"

findall(contents) ==
    LET m == SelectSeq(contents, MatchesPattern)
    IN [i \in 1..Len(m) |-> m[i].href]

\* The first loop of crawl: one entry per file whose name ends with .html.
ExtractLinks(dir) ==
    [f \in {g \in DOMAIN dir : endswith(g, HtmlSuffix)} |->
        SeqToSet(findall(dir[f])) \ {f}]

\* The second loop of crawl: keep the links that are keys of pages.
FilterLinksKeepAll(ps) == ps

FilterLinks(ps) ==
    [f \in DOMAIN ps |-> {link \in ps[f] : link \in DOMAIN ps}]

CrawlExtract ==
    /\ crawl_pc = "extract"
    /\ pages' = ExtractLinks(directory)
    /\ crawl_pc' = "filter"
    /\ UNCHANGED <<directory, rankVars>>

CrawlFilter ==
    /\ crawl_pc = "filter"
    /\ pages' = FilterLinks(pages)
    /\ crawl_pc' = "return"
    /\ UNCHANGED <<directory, rankVars>>

RankIdle ==
    /\ corpus = EmptyDict
    /\ call = "none"
    /\ pc = "none"
    /\ page = NoName
    /\ damping_factor = DAMPING
    /\ n = 0
    /\ visit_probability = EmptyDict
    /\ linked_page = ""
    /\ other_pages = {}
    /\ starting_page = NoName
    /\ N = 0
    /\ pagerank = EmptyDict
    /\ difference = EmptyDict
    /\ result = [kind |-> "none", exc |-> "", line |-> 0]

InitCrawl ==
    /\ directory \in Directories
    /\ pages = EmptyDict
    /\ crawl_pc = "extract"
    /\ RankIdle

NextCrawl == CrawlExtract \/ CrawlFilter

SpecCrawl == InitCrawl /\ [][NextCrawl]_vars

\* C6: the graph crawl returns has exactly the .html files of the directory
\* as keys (a page whose links were all dropped included), no page is in its
\* own outbound set, and every outbound link is itself a key.
C6_CrawlClosed ==
    crawl_pc = "return" =>
        /\ DOMAIN pages = {f \in DOMAIN directory : endswith(f, HtmlSuffix)}
        /\ \A p \in DOMAIN pages :
            /\ p \notin pages[p]
            /\ pages[p] \subseteq DOMAIN pages

\* crawl has returned a graph in which a page that linked to itself and to a
\* file outside the corpus is a key with an empty outbound set, next to a
\* page that keeps a link.
C6_Witness ==
    /\ crawl_pc = "return"
    /\ NameA \in DOMAIN pages
    /\ NameB \in DOMAIN pages
    /\ SeqToSet(findall(directory[NameA])) = {NameA, NameAbsent}
    /\ pages[NameA] = {}
    /\ pages[NameB] = {NameA}

----------------------------------------------------------------------------
(* The ranking functions, called on a corpus that crawl can return *)

PageNames == {NameA, NameB, NameC}

\* The graphs crawl returns: a set of pages, each with links to other pages
\* of the set (C6_CrawlClosed).
Corpora ==
    {c \in UNION {[S -> SUBSET S] : S \in SUBSET PageNames} :
        \A p \in DOMAIN c : p \notin c[p]}

\* The damping factors tried: DAMPING, another one inside (0,1), and four
\* outside the open interval.
DampingFactors == {DAMPING, <<1, 2>>, <<0, 1>>, <<1, 1>>, <<3, 2>>, <<-1, 2>>}

SampleCounts == (-1..MaxSamples) \cup {SAMPLES}

\* The keys of a corpus are the file names crawl stored (str); no key is an
\* int.
IntKeys(d) == {}

Running == [kind |-> "running", exc |-> "", line |-> 0]
Raised(exc, line) == [kind |-> "raised", exc |-> exc, line |-> line]

\* random.choice(seq) on a str: seq[i] for a random index, IndexError on "".
\* The set of possible outcomes.
choice_str(seq, line) ==
    IF Len(seq) = 0
    THEN {[res |-> Raised("IndexError", line), val |-> ""]}
    ELSE {[res |-> Running, val |-> seq[i]] : i \in 1..Len(seq)}

\* random.choice(seq) on a set: IndexError when it is empty, and otherwise
\* seq[i], which a set does not support.
choice_set(seq, line) ==
    IF Cardinality(seq) = 0
    THEN Raised("IndexError", line)
    ELSE Raised("TypeError", line)

\* random.choice(seq) on a dict: IndexError when it is empty, and otherwise
\* the lookup seq[i] of an int i below len(seq), KeyError when i is no key.
choice_dict(seq, line) ==
    IF Cardinality(DOMAIN seq) = 0
    THEN {[res |-> Raised("IndexError", line), val |-> NoName]}
    ELSE {IF i \in IntKeys(seq)
          THEN [res |-> Running, val |-> seq[i]]
          ELSE [res |-> Raised("KeyError", line), val |-> NoName] :
            i \in 0..(Cardinality(DOMAIN seq) - 1)}

(* transition_model(corpus, page, damping_factor) *)

TM_Call ==
    /\ call = "none"
    /\ \E p \in DOMAIN corpus, d \in DampingFactors :
        /\ page' = p
        /\ damping_factor' = d
    /\ call' = "transition_model"
    /\ pc' = "line62"
    /\ result' = Running
    /\ UNCHANGED <<crawlVars, corpus, n, visit_probability, linked_page,
                   other_pages, starting_page, N, pagerank, difference>>

\* Lines 62-64: visit_probability = dict(); linked_page is a random
\* character of the string page.
TM_LinkedPage ==
    /\ call = "transition_model"
    /\ pc = "line62"
    /\ visit_probability' = EmptyDict
    /\ \E o \in choice_str(page, 64) :
        /\ linked_page' = o.val
        /\ result' = o.res
        /\ pc' = IF o.res.kind = "raised" THEN "raised" ELSE "line65"
    /\ UNCHANGED <<crawlVars, corpus, call, page, damping_factor, n,
                   other_pages, starting_page, N, pagerank, difference>>

\* Lines 65-69: the keys of corpus other than page.
TM_OtherPages ==
    /\ call = "transition_model"
    /\ pc = "line65"
    /\ other_pages' = {i \in DOMAIN corpus : i # page}
    /\ pc' = "line71"
    /\ UNCHANGED <<crawlVars, corpus, call, page, damping_factor, n,
                   visit_probability, linked_page, starting_page, N,
                   pagerank, difference, result>>

\* Line 71: random.choice(other_pages) on a set raises; lines 73-76 are not
\* reached.
TM_LinkFromOtherPage ==
    /\ call = "transition_model"
    /\ pc = "line71"
    /\ result' = choice_set(other_pages, 71)
    /\ pc' = "raised"
    /\ UNCHANGED <<crawlVars, corpus, call, page, damping_factor, n,
                   visit_probability, linked_page, other_pages,
                   starting_page, N, pagerank, difference>>

(* sample_pagerank(corpus, damping_factor, n) *)

SP_Call ==
    /\ call = "none"
    /\ \E d \in DampingFactors, k \in SampleCounts :
        /\ damping_factor' = d
        /\ n' = k
    /\ call' = "sample_pagerank"
    /\ pc' = "line88"
    /\ result' = Running
    /\ UNCHANGED <<crawlVars, corpus, page, visit_probability, linked_page,
                   other_pages, starting_page, N, pagerank, difference>>

\* Lines 88-90: pagerank = dict(); random.choice(corpus) on the dict raises;
\* lines 91-101 are not reached.
SP_StartingPage ==
    /\ call = "sample_pagerank"
    /\ pc = "line88"
    /\ pagerank' = EmptyDict
    /\ \E o \in choice_dict(corpus, 90) :
        /\ starting_page' = o.val
        /\ result' = o.res
        /\ pc' = IF o.res.kind = "raised" THEN "raised" ELSE "line91"
    /\ UNCHANGED <<crawlVars, corpus, call, page, damping_factor, n,
                   visit_probability, linked_page, other_pages, N,
                   difference>>

(* iterate_pagerank(corpus, damping_factor) *)

\* [i for i in page if i]: the characters of the string page.
CharsOf(s) == SelectSeq(s, LAMBDA ch : ch # "")

\* list / int: the operator is not defined for a list.
list_truediv(lst, k, line) == Raised("TypeError", line)

IP_Call ==
    /\ call = "none"
    /\ \E d \in DampingFactors : damping_factor' = d
    /\ call' = "iterate_pagerank"
    /\ pc' = "line112"
    /\ result' = Running
    /\ UNCHANGED <<crawlVars, corpus, page, n, visit_probability,
                   linked_page, other_pages, starting_page, N, pagerank,
                   difference>>

\* Lines 112-119: every page starts at 1/N; difference is a copy.
IP_Init ==
    /\ call = "iterate_pagerank"
    /\ pc = "line112"
    /\ N' = Cardinality(DOMAIN corpus)
    /\ pagerank' = [p \in DOMAIN corpus |-> Rat(1, N')]
    /\ difference' = pagerank'
    /\ pc' = "line121"
    /\ UNCHANGED <<crawlVars, corpus, call, page, damping_factor, n,
                   visit_probability, linked_page, other_pages,
                   starting_page, result>>

\* Lines 121-125 on a corpus with a page: the first page of the first for
\* loop evaluates [...] / len(page), which raises before pagerank[page] is
\* assigned; lines 126-140 are not reached.
IP_UpdateFirstPage ==
    /\ call = "iterate_pagerank"
    /\ pc = "line121"
    /\ \E p \in DOMAIN corpus :
        /\ page' = p
        /\ result' = list_truediv(CharsOf(p), Len(p), 125)
    /\ pc' = "raised"
    /\ UNCHANGED <<crawlVars, corpus, call, damping_factor, n,
                   visit_probability, linked_page, other_pages,
                   starting_page, N, pagerank, difference>>

\* Lines 121-138 on an empty corpus: neither for loop has a page to visit,
\* so no break is executed, difference is copied again and the while loop
\* starts over.
IP_EmptyPass ==
    /\ call = "iterate_pagerank"
    /\ pc = "line121"
    /\ DOMAIN corpus = {}
    /\ difference' = pagerank
    /\ pc' = "line121"
    /\ UNCHANGED <<crawlVars, corpus, call, page, damping_factor, n,
                   visit_probability, linked_page, other_pages,
                   starting_page, N, pagerank, result>>

CrawlIdle ==
    /\ directory = EmptyDict
    /\ pages = EmptyDict
    /\ crawl_pc = "none"

Init ==
    /\ CrawlIdle
    /\ corpus \in Corpora
    /\ call = "none"
    /\ pc = "none"
    /\ page = NoName
    /\ damping_factor = DAMPING
    /\ n = 0
    /\ visit_probability = EmptyDict
    /\ linked_page = ""
    /\ other_pages = {}
    /\ starting_page = NoName
    /\ N = 0
    /\ pagerank = EmptyDict
    /\ difference = EmptyDict
    /\ result = [kind |-> "none", exc |-> "", line |-> 0]

Next ==
    \/ TM_Call
    \/ TM_LinkedPage
    \/ TM_OtherPages
    \/ TM_LinkFromOtherPage
    \/ SP_Call
    \/ SP_StartingPage
    \/ IP_Call
    \/ IP_Init
    \/ IP_UpdateFirstPage
    \/ IP_EmptyPass

Spec == Init /\ [][Next]_vars

----------------------------------------------------------------------------
(* The claims about the ranking functions *)

Ended == result.kind \in {"returned", "raised"}
Returned == result.kind = "returned"

ValidDamping(d) == RLess(RZero, d) /\ RLess(d, ROne)

NumPages == Cardinality(DOMAIN corpus)

\* (1-d)/N
Teleport(d) == RMul(RSub(ROne, d), Rat(1, NumPages))

\* The probability the contract gives page p as the successor of page cur.
ExpectedTransition(cur, d, p) ==
    IF corpus[cur] = {}
    THEN Rat(1, NumPages)
    ELSE IF p \in corpus[cur]
         THEN RAdd(RMul(d, Rat(1, Cardinality(corpus[cur]))), Teleport(d))
         ELSE Teleport(d)

\* C1: for a page of a non-empty corpus and 0 < d < 1, transition_model
\* returns a mapping whose keys are exactly the pages of the corpus, whose
\* values sum to 1 and in which no page has probability 0.
C1_TransitionIsDistribution ==
    (call = "transition_model" /\ ValidDamping(damping_factor) /\ Ended) =>
        /\ Returned
        /\ DOMAIN visit_probability = DOMAIN corpus
        /\ RSum(visit_probability, DOMAIN corpus) = ROne
        /\ \A p \in DOMAIN corpus : visit_probability[p] # RZero

\* C2: when the current page has an outbound link, transition_model gives
\* each page it links to d/|links(page)| + (1-d)/N and each other page, the
\* current page included, (1-d)/N.
C2_LinkedPageProbabilities ==
    (/\ call = "transition_model"
     /\ ValidDamping(damping_factor)
     /\ corpus[page] # {}
     /\ Ended) =>
        /\ Returned
        /\ DOMAIN visit_probability = DOMAIN corpus
        /\ \A p \in DOMAIN corpus :
            visit_probability[p] = ExpectedTransition(page, damping_factor, p)

\* C3: when the current page has no outbound link, transition_model returns
\* the uniform distribution: every page of the corpus, the current page
\* included, gets exactly 1/N.
C3_DanglingPageUniform ==
    (/\ call = "transition_model"
     /\ ValidDamping(damping_factor)
     /\ corpus[page] = {}
     /\ Ended) =>
        /\ Returned
        /\ DOMAIN visit_probability = DOMAIN corpus
        /\ \A p \in DOMAIN corpus : visit_probability[p] = Rat(1, NumPages)

\* The state of the convergence loop of iterate_pagerank.
LoopState ==
    CASE result.kind = "running" -> "iterating"
      [] result.kind = "returned" -> "converged"
      [] result.kind = "raised" /\ result.exc = "ConvergenceError" -> "cap-exceeded"
      [] OTHER -> "crashed"

\* C4: on a non-empty corpus the convergence loop of iterate_pagerank is
\* iterating until it ends, and it ends either converged (the function
\* returns) or cap-exceeded (a ConvergenceError), in no other way.
C4_IterateEndsConvergedOrCapped ==
    (/\ call = "iterate_pagerank"
     /\ DOMAIN corpus # {}
     /\ ValidDamping(damping_factor)) =>
        LoopState \in {"iterating", "converged", "cap-exceeded"}

\* x is v/k for a visit count v of 0..k.
IsVisitShare(x, k) == \E v \in 0..k : x = Rat(v, k)

\* C5: for a non-empty corpus and n >= 1, sample_pagerank returns a mapping
\* with every page of the corpus as a key, each value a visit count out of n
\* (0 for a page never visited), the values summing to 1 (so the counts sum
\* to n).
C5_SampleReturnsVisitShares ==
    (/\ call = "sample_pagerank"
     /\ DOMAIN corpus # {}
     /\ n >= 1
     /\ ValidDamping(damping_factor)
     /\ Ended) =>
        /\ Returned
        /\ DOMAIN pagerank = DOMAIN corpus
        /\ \A p \in DOMAIN corpus : IsVisitShare(pagerank[p], n)
        /\ RSum(pagerank, DOMAIN corpus) = ROne

InvalidArguments ==
    \/ call \in {"sample_pagerank", "iterate_pagerank"}
        /\ ~ValidDamping(damping_factor)
    \/ call = "sample_pagerank" /\ n < 1

\* C7: an estimator called with a damping factor outside (0,1), or
\* sample_pagerank called with n < 1, ends in an InvalidArgumentError and
\* returns no mapping.
C7_InvalidArgumentsRejected ==
    (InvalidArguments /\ Ended) =>
        /\ result.kind = "raised"
        /\ result.exc = "InvalidArgumentError"

ThreeCycle ==
    [p \in PageNames |->
        CASE p = NameA -> {NameB}
          [] p = NameB -> {NameC}
          [] OTHER -> {NameA}]

\* C8: on the three-page cycle A->B, B->C, C->A, iterate_pagerank returns
\* rank exactly 1/3 for each page, for every d with 0 < d < 1.
C8_ThreeCycleUniform ==
    (/\ call = "iterate_pagerank"
     /\ corpus = ThreeCycle
     /\ ValidDamping(damping_factor)
     /\ Ended) =>
        /\ Returned
        /\ pagerank = [p \in PageNames |-> Rat(1, 3)]

\* What page q passes on to page p in one pass: old[q]/|links(q)| when q
\* links to p, old[q]/N when q has no link at all.
Contribution(old, q, p) ==
    IF corpus[q] = {} THEN RMul(old[q], Rat(1, NumPages))
    ELSE IF p \in corpus[q] THEN RMul(old[q], Rat(1, Cardinality(corpus[q])))
    ELSE RZero

SynchronousUpdate(old, d, p) ==
    RAdd(Teleport(d),
         RMul(d, RSum([q \in DOMAIN corpus |-> Contribution(old, q, p)],
                      DOMAIN corpus)))

\* C9: once a pass of iterate_pagerank has handled a page p, the rank of p
\* is (1-d)/N + d * (sum of what the pages linking to p pass on), computed
\* from the snapshot taken before the pass (the dict difference), and the
\* pass has not failed.
C9_SynchronousUpdate ==
    (/\ call = "iterate_pagerank"
     /\ DOMAIN corpus # {}
     /\ ValidDamping(damping_factor)
     /\ pc \notin {"line112", "line121"}) =>
        /\ result.kind # "raised"
        /\ pagerank[page] = SynchronousUpdate(difference, damping_factor, page)

\* C10: on a non-empty corpus with n >= 1, once sample_pagerank is past its
\* first draw, the walk has a first visited page that is a page of the
\* corpus, and the walk goes on from it.
C10_WalkStartsOnAPage ==
    (/\ call = "sample_pagerank"
     /\ DOMAIN corpus # {}
     /\ n >= 1
     /\ ValidDamping(damping_factor)
     /\ pc # "line88") =>
        /\ starting_page \in DOMAIN corpus
        /\ result.kind # "raised"

====
